---- MODULE Spec2Model ----
(***************************************************************************)
(* Model of the resilient request layer of utils.js: safeFetch            *)
(* (src/js/utils.js:812-859), its retry loop, its single AbortController  *)
(* and timeout timer, and the way it reads the response body.             *)
(*                                                                         *)
(* One safeFetch call is followed from the call to the settlement of the   *)
(* promise it returns.  The steps are the pieces of the async function     *)
(* that run without suspension: the call up to the first `await fetch`,    *)
(* the continuation after fetch resolves or rejects, the continuation      *)
(* after the body read resolves or rejects, and the timer callback.        *)
(***************************************************************************)
EXTENDS Integers, Sequences, FiniteSets, TLC

(* ------------------------------ bounds -------------------------------- *)

MaxRetries == 2
MaxTimeout == 1

(* ----------------------------- JS values ------------------------------ *)

\* A JavaScript value as far as the request layer looks at it: a type tag
\* and a printable content.
Null == [t |-> "null", v |-> ""]

Str(s) == [t |-> "string", v |-> s]

Obj(s) == [t |-> "object", v |-> s]

\* Header values are strings whose characters are inspected (includes,
\* toLowerCase), so they are sequences of one-character strings.
NoHeader == [has |-> FALSE, chars |-> <<>>]

Header(cs) == [has |-> TRUE, chars |-> cs]

APPLICATION_JSON ==
    <<"a","p","p","l","i","c","a","t","i","o","n","/","j","s","o","n">>

APPLICATION_JSON_UPPER ==
    <<"A","p","p","l","i","c","a","t","i","o","n","/","J","S","O","N">>

APPLICATION_JSON_CHARSET ==
    APPLICATION_JSON \o <<";"," ","c","h","a","r","s","e","t","=","u","t","f","-","8">>

TEXT_HTML == <<"t","e","x","t","/","h","t","m","l">>

\* String.prototype.includes
Includes(s, sub) ==
    \E i \in 0..(Len(s) - Len(sub)) : SubSeq(s, i + 1, i + Len(sub)) = sub

UPPER_LETTERS ==
    <<"A","B","C","D","E","F","G","H","I","J","K","L","M",
      "N","O","P","Q","R","S","T","U","V","W","X","Y","Z">>

LOWER_LETTERS ==
    <<"a","b","c","d","e","f","g","h","i","j","k","l","m",
      "n","o","p","q","r","s","t","u","v","w","x","y","z">>

\* String.prototype.toLowerCase, character by character
LowerChar(c) ==
    IF \E i \in 1..Len(UPPER_LETTERS) : UPPER_LETTERS[i] = c
    THEN LOWER_LETTERS[CHOOSE i \in 1..Len(UPPER_LETTERS) : UPPER_LETTERS[i] = c]
    ELSE c

ToLowerCase(s) == [i \in 1..Len(s) |-> LowerChar(s[i])]

(* ------------------------------ errors -------------------------------- *)

\* `undefined` for the status property of an Error that has none
NoStatus == -1

\* A thrown value: the Error's name, and the status and data properties
\* safeFetch attaches to the Error it builds for a non-ok response.
Err(name, status, data) == [name |-> name, status |-> status, data |-> data]

\* fetch rejects with a TypeError on a network fault
NetworkError == Err("TypeError", NoStatus, Null)

\* fetch rejects with an AbortError DOMException once the signal is aborted
AbortError == Err("AbortError", NoStatus, Null)

\* response.json() rejects with a SyntaxError on malformed JSON
SyntaxError == Err("SyntaxError", NoStatus, Null)

\* JSON.stringify throws a TypeError on a cyclic structure
CyclicError == Err("TypeError", NoStatus, Null)

\* no error: the null in the first slot of the returned pair
NoError == Err("null", NoStatus, Null)

(* ----------------------------- responses ------------------------------ *)

Statuses == {200, 404, 500}

\* Response.ok: status in the range 200-299
Ok(status) == status >= 200 /\ status <= 299

ContentTypes ==
    { NoHeader, Header(APPLICATION_JSON), Header(APPLICATION_JSON_UPPER),
      Header(APPLICATION_JSON_CHARSET), Header(TEXT_HTML) }

JSON_OBJECT_TEXT == "{\"ok\":true}"

JSON_NULL_TEXT == "null"

HTML_TEXT == "<html>"

BodyTexts == { JSON_OBJECT_TEXT, JSON_NULL_TEXT, HTML_TEXT }

\* JSON.parse as response.json() applies it to the body text
WellFormedJSON(text) == text \in { JSON_OBJECT_TEXT, JSON_NULL_TEXT }

JSONParse(text) ==
    CASE text = JSON_OBJECT_TEXT -> Obj("ok=true")
      [] text = JSON_NULL_TEXT -> Null
      [] OTHER -> Null

\* A response as the transport delivers it.  broken: the body stream fails
\* while it is read (the connection drops after the headers arrived).
Responses ==
    [ status : Statuses, contentType : ContentTypes, text : BodyTexts,
      broken : BOOLEAN ]

NoResponse ==
    [ status |-> 0, contentType |-> NoHeader, text |-> "", broken |-> FALSE ]

(* ------------------------- request options ---------------------------- *)

Undefined == [t |-> "undefined", v |-> ""]

\* the bodies a caller passes in options.body
PLAIN_OBJECT == Obj("name=Test")

CYCLIC_OBJECT == [t |-> "cyclic", v |-> "self"]

FORM_DATA == [t |-> "FormData", v |-> "name=Test"]

BLOB == [t |-> "Blob", v |-> "bytes"]

Bodies ==
    { Undefined, Str(""), Str("name=Test"), PLAIN_OBJECT, CYCLIC_OBJECT,
      FORM_DATA, BLOB }

\* ToBoolean of a body value: undefined, null and "" are falsy
Truthy(val) == ~ (val = Undefined \/ val = Null \/ val = Str(""))

\* typeof val === "object" (null apart, which is falsy anyway)
TypeofObject(val) == val.t \in {"object", "cyclic", "FormData", "Blob", "null"}

InstanceofFormData(val) == val.t = "FormData"

\* JSON.stringify(val) throws on a cyclic structure
StringifyThrows(val) == val.t = "cyclic"

\* JSON.stringify(val) of an object: a Blob has no enumerable own
\* properties and serializes to "{}"
JSONStringify(val) ==
    CASE val.t = "Blob" -> Str("{}")
      [] val.t = "object" -> Str("{" \o val.v \o "}")
      [] OTHER -> Str(val.v)

HeaderNames == {"Accept", "Content-Type", "X-CSRFToken"}

\* options.headers absent (undefined), or {}
NoHeaders == [h \in HeaderNames |-> NoHeader]

OptionHeaders ==
    { NoHeaders,
      [NoHeaders EXCEPT !["Accept"] = Header(TEXT_HTML)],
      [NoHeaders EXCEPT !["Content-Type"] = Header(TEXT_HTML)] }

\* { Accept: "application/json", ...(options.headers || {}) }
MergeHeaders(optionHeaders) ==
    [h \in HeaderNames |->
        IF optionHeaders[h].has THEN optionHeaders[h]
        ELSE IF h = "Accept" THEN Header(APPLICATION_JSON)
        ELSE NoHeader]

\* options.method: absent, or a verb the caller chose
Methods == { Undefined, Str("PUT") }

\* the condition under which the body is serialized
ShouldStringify(auto, body) ==
    auto /\ Truthy(body) /\ TypeofObject(body) /\ ~ InstanceofFormData(body)

(* ------------------------------- state -------------------------------- *)

VARIABLES
    pc,          \* where the async function is: "idle" (not called),
                 \* "fetching" (await fetch), "reading" (await response.json()
                 \* or response.text()), "resolved", "rejected"
    options,     \* the options object safeFetch receives: [body, headers, method]
    autoJSON,    \* config.autoJSON
    retries,     \* config.retries
    timeout,     \* config.timeout
    opts,        \* the request handed to fetch: [body, headers, method]
    aborted,     \* controller.signal.aborted
    timer,       \* the timeout timer `id`: "none", "pending", "fired", "cleared"
    attempts,    \* the retry counter
    calls,       \* number of times fetch was invoked by this call
    response,    \* the response of the current attempt
    result       \* the settlement: <<error, data>>, or the thrown value

\* State outside the safeFetch call: the page and the CSRF token resolver,
\* and the arguments and results of the helpers applied on their own.
VARIABLES
    csrfOptions,   \* the options object the caller passed to fetchWithCSRF
    dom,           \* what the three token sources hold: [input, meta, cookie]
    cachedToken,   \* the closure variable of getCSRFToken
    token,         \* the value the last getCSRFToken call returned
    lookups,       \* number of source lookups (querySelector, getCookie) made
    tokenCalls,    \* number of getCSRFToken calls made
    classified,    \* getResponseType applied: [contentType, type]
    normalization  \* normalizeError applied: [pc, error, out]

\* The helpers that stand alone, each with the state of one use of it.
VARIABLES
    inspected,   \* objectContainsFile applied: [obj, out]
    throttled,   \* a function made by throttle, its flag, timer and clock
    debounced,   \* a function made by debounce, its timer and clock
    reading,     \* safelyReadResponse applied to a response
    flights      \* two safeFetch calls in flight at once, each with its locals

helperVars == << inspected, throttled, debounced, reading, flights >>

\* The values the caller's options object held when the caller made the
\* call (of safeFetch, or of fetchWithCSRF); `options` and `csrfOptions`
\* are that object as it is now.
VARIABLE passed

envVars ==
    << csrfOptions, dom, cachedToken, token, lookups, tokenCalls, classified,
       normalization, helperVars, passed >>

vars ==
    << pc, options, autoJSON, retries, timeout, opts, aborted, timer,
       attempts, calls, response, result, envVars >>

NoOptions == [body |-> Undefined, headers |-> NoHeaders, method |-> Undefined]

NoClassification ==
    [base |-> "", casing |-> "lower", contentType |-> NoHeader, type |-> "none"]

NoNormalization == [pc |-> "idle", error |-> Null, out |-> Null]

NoInspection == [obj |-> Null, out |-> "none"]

\* no timer pending, nothing invoked yet
NoTime == -1

\* safelyReadResponse not yet applied
NoReading ==
    [ pc |-> "idle", base |-> "", casing |-> "lower", contentType |-> NoHeader,
      text |-> "", type |-> "none", decoding |-> "none",
      fetchDecoding |-> "none", bodyUsed |-> FALSE, cloneUsed |-> FALSE,
      out |-> Null, consumer |-> "none" ]

\* the two calls of safeFetch that are in flight together
Flights == {1, 2}

\* the locals of a safeFetch call that has not been made yet
NoFlight ==
    [ pc |-> "idle", retries |-> 0, timeout |-> 0, aborted |-> FALSE,
      timer |-> "none", attempts |-> 0, calls |-> 0, response |-> NoResponse,
      result |-> << NoError, Null >> ]

\* no helper made or applied yet
InitHelpers ==
    /\ inspected = NoInspection
    /\ throttled =
          [ made |-> FALSE, limit |-> 0, inThrottle |-> "undefined",
            timer |-> NoTime, now |-> 0, callsMade |-> 0, invocations |-> 0,
            lastInvoked |-> NoTime ]
    /\ debounced =
          [ made |-> FALSE, wait |-> 0, immediate |-> FALSE, maxWait |-> 0,
            timeoutId |-> "undefined", due |-> NoTime, lastCallTime |-> NoTime,
            now |-> 0, callsMade |-> 0, invocations |-> 0 ]
    /\ reading = NoReading
    /\ flights = [i \in Flights |-> NoFlight]

\* the module as loaded: no token cached, no helper applied yet
InitEnv ==
    /\ csrfOptions = NoOptions
    /\ dom = [input |-> Null, meta |-> Null, cookie |-> Null]
    /\ cachedToken = Null
    /\ token = Null
    /\ lookups = 0
    /\ tokenCalls = 0
    /\ classified = NoClassification
    /\ normalization = NoNormalization
    /\ InitHelpers
    /\ passed = NoOptions

Init ==
    /\ pc = "idle"
    /\ options = NoOptions
    /\ autoJSON = TRUE
    /\ retries = 0
    /\ timeout = 0
    /\ opts = NoOptions
    /\ aborted = FALSE
    /\ timer = "none"
    /\ attempts = 0
    /\ calls = 0
    /\ response = NoResponse
    /\ result = << NoError, Null >>
    /\ InitEnv

(* -------------------------- pieces of safeFetch ------------------------ *)

\* `await fetch(url, opts)`: the transport is invoked and the function
\* suspends; `response` of the new loop iteration is not yet bound.
Fetch ==
    /\ calls' = calls + 1
    /\ pc' = "fetching"
    /\ response' = NoResponse

\* Variants of the catch block, each with one plausible slip.
\* A caught value without a status is thrown again once the budget is spent.
Catch_Rethrow(err) ==
    IF attempts < retries
    THEN /\ attempts' = attempts + 1
         /\ Fetch
         /\ UNCHANGED result
    ELSE /\ pc' = IF err.status = NoStatus THEN "rejected" ELSE "resolved"
         /\ result' = << err, Null >>
         /\ UNCHANGED << attempts, calls, response >>

\* The budget test is off by one: one retry too few.
Catch_OffByOne(err) ==
    IF attempts + 1 < retries
    THEN /\ attempts' = attempts + 1
         /\ Fetch
         /\ UNCHANGED result
    ELSE /\ pc' = "resolved"
         /\ result' = << err, Null >>
         /\ UNCHANGED << attempts, calls, response >>

\* An abort is not retried: the call gives up at once.
Catch_AbortNoRetry(err) ==
    IF attempts < retries /\ err # AbortError
    THEN /\ attempts' = attempts + 1
         /\ Fetch
         /\ UNCHANGED result
    ELSE /\ pc' = "resolved"
         /\ result' = << err, Null >>
         /\ UNCHANGED << attempts, calls, response >>

\* The catch block: retry while attempts < retries, else resolve with the
\* caught value.  `continue` re-enters the loop, whose condition
\* attempts <= retries then holds, and fetch is invoked again.
Catch(err) ==
    IF attempts < retries
    THEN /\ attempts' = attempts + 1
         /\ Fetch
         /\ UNCHANGED result
    ELSE /\ pc' = "resolved"
         /\ result' = << err, Null >>
         /\ UNCHANGED << attempts, calls, response >>

\* contentType?.includes("application/json"): null when the header is absent
IsJsonContentType(contentType) ==
    contentType.has /\ Includes(contentType.chars, APPLICATION_JSON)

\* The body read: response.json() when the content type includes
\* "application/json", response.text() otherwise.  Either rejects when the
\* body stream fails; json() rejects on malformed JSON.
ReadBody(resp) ==
    IF resp.broken
    THEN [fault |-> TRUE, err |-> NetworkError, data |-> Null]
    ELSE IF IsJsonContentType(resp.contentType)
    THEN IF WellFormedJSON(resp.text)
         THEN [fault |-> FALSE, err |-> NoError, data |-> JSONParse(resp.text)]
         ELSE [fault |-> TRUE, err |-> SyntaxError, data |-> Null]
    ELSE [fault |-> FALSE, err |-> NoError, data |-> Str(resp.text)]

\* The Error thrown for a non-ok response
HttpError(resp, data) == Err("Error", resp.status, data)

\* the request built from the caller's options, before serialization
BuildOpts(o) ==
    [body |-> o.body, headers |-> MergeHeaders(o.headers), method |-> o.method]

\* clearTimeout(id): cancels a pending timer, nothing otherwise
ClearTimeout(tm) == IF tm = "pending" THEN "cleared" ELSE tm

(* ------------------------------ actions ------------------------------- *)

\* The call, up to the first suspension: controller and timer are created
\* once, the request is built, the body serialized, and the loop entered.
safeFetch(o, auto, r, t) ==
    /\ pc = "idle"
    /\ options' = o
    /\ autoJSON' = auto
    /\ retries' = r
    /\ timeout' = t
    /\ aborted' = FALSE
    /\ timer' = IF t # 0 THEN "pending" ELSE "none"
    /\ IF ShouldStringify(auto, o.body)
       THEN IF StringifyThrows(o.body)
            THEN \* the exception leaves the async function: the promise rejects
                 /\ opts' = [BuildOpts(o) EXCEPT
                                !.headers["Content-Type"] = Header(APPLICATION_JSON)]
                 /\ pc' = "rejected"
                 /\ result' = << CyclicError, Null >>
                 /\ UNCHANGED << attempts, calls, response >>
            ELSE /\ opts' = [BuildOpts(o) EXCEPT
                                !.headers["Content-Type"] = Header(APPLICATION_JSON),
                                !.body = JSONStringify(o.body)]
                 /\ attempts' = 0
                 /\ Fetch
                 /\ UNCHANGED result
       ELSE /\ opts' = BuildOpts(o)
            /\ attempts' = 0
            /\ Fetch
            /\ UNCHANGED result

\* fetch resolves with a response: the timer is cleared and the body read starts
FetchResolves(resp) ==
    /\ pc = "fetching"
    /\ ~ aborted
    /\ response' = resp
    /\ timer' = ClearTimeout(timer)
    /\ pc' = "reading"
    /\ UNCHANGED << options, autoJSON, retries, timeout, opts, aborted,
                    attempts, calls, result >>
    /\ UNCHANGED envVars

\* fetch rejects with a network fault
FetchRejects ==
    /\ pc = "fetching"
    /\ ~ aborted
    /\ Catch(NetworkError)
    /\ UNCHANGED << options, autoJSON, retries, timeout, opts, aborted, timer >>
    /\ UNCHANGED envVars

\* fetch rejects because its signal is aborted: aborted while in flight, or
\* already aborted when fetch was invoked
FetchAborted ==
    /\ pc = "fetching"
    /\ aborted
    /\ Catch(AbortError)
    /\ UNCHANGED << options, autoJSON, retries, timeout, opts, aborted, timer >>
    /\ UNCHANGED envVars

\* Variant: the timer callback fires without aborting the controller.
TimerFires_NoAbort ==
    /\ timer = "pending"
    /\ timer' = "fired"
    /\ UNCHANGED << pc, options, autoJSON, retries, timeout, opts, aborted,
                    attempts, calls, response, result >>
    /\ UNCHANGED envVars

\* the timer callback: controller.abort()
TimerFires ==
    /\ timer = "pending"
    /\ timer' = "fired"
    /\ aborted' = TRUE
    /\ UNCHANGED << pc, options, autoJSON, retries, timeout, opts, attempts,
                    calls, response, result >>
    /\ UNCHANGED envVars

\* Variant: an ok response resolves with the raw body text, undecoded.
ReadResolves_RawText ==
    /\ pc = "reading"
    /\ ~ ReadBody(response).fault
    /\ IF ~ Ok(response.status)
       THEN Catch(HttpError(response, ReadBody(response).data))
       ELSE /\ pc' = "resolved"
            /\ result' = << NoError, Str(response.text) >>
            /\ UNCHANGED << attempts, calls, response >>
    /\ UNCHANGED << options, autoJSON, retries, timeout, opts, aborted, timer >>
    /\ UNCHANGED envVars

\* the body read resolves: a non-ok response is thrown as an Error with
\* status and data, an ok response resolves the call
ReadResolves ==
    /\ pc = "reading"
    /\ ~ ReadBody(response).fault
    /\ IF ~ Ok(response.status)
       THEN Catch(HttpError(response, ReadBody(response).data))
       ELSE /\ pc' = "resolved"
            /\ result' = << NoError, ReadBody(response).data >>
            /\ UNCHANGED << attempts, calls, response >>
    /\ UNCHANGED << options, autoJSON, retries, timeout, opts, aborted, timer >>
    /\ UNCHANGED envVars

\* the body read rejects
ReadRejects ==
    /\ pc = "reading"
    /\ ReadBody(response).fault
    /\ Catch(ReadBody(response).err)
    /\ UNCHANGED << options, autoJSON, retries, timeout, opts, aborted, timer >>
    /\ UNCHANGED envVars

Call ==
    /\ \E o \in [body : Bodies, headers : OptionHeaders, method : Methods],
          auto \in BOOLEAN, r \in 0..MaxRetries, t \in 0..MaxTimeout :
            /\ safeFetch(o, auto, r, t)
            /\ passed' = o
    /\ UNCHANGED << csrfOptions, dom, cachedToken, token, lookups, tokenCalls,
                    classified, normalization, helperVars >>

Next ==
    \/ Call
    \/ \E resp \in Responses : FetchResolves(resp)
    \/ FetchRejects
    \/ FetchAborted
    \/ TimerFires
    \/ ReadResolves
    \/ ReadRejects

Spec == Init /\ [][Next]_vars

\* A transport that never answers on its own but honours the abort signal:
\* no response arrives and no network fault is reported.  Timers of the
\* event loop fire, and an aborted fetch rejects.
NextSilent ==
    \/ Call
    \/ TimerFires
    \/ FetchAborted

SpecSilent ==
    Init /\ [][NextSilent]_vars /\ WF_vars(TimerFires) /\ WF_vars(FetchAborted)

TypeOK ==
    /\ pc \in {"idle", "fetching", "reading", "resolved", "rejected"}
    /\ retries \in 0..MaxRetries
    /\ timeout \in 0..MaxTimeout
    /\ attempts \in 0..MaxRetries
    /\ calls \in 0..(MaxRetries + 1)
    /\ timer \in {"none", "pending", "fired", "cleared"}
    /\ aborted \in BOOLEAN
    /\ response \in Responses \cup {NoResponse}

(* ------------------------ properties of safeFetch --------------------- *)

error == result[1]

data == result[2]

Settled == pc \in {"resolved", "rejected"}

C2_ExactlyOneSide ==
    pc = "resolved" => ((error # NoError) # (data # Null))

\* C3: when every attempt failed (the call resolved with an error), fetch
\* was invoked exactly retries + 1 times; with retries = 0 exactly once; and
\* it is never invoked more often than that.
C3_RetryCount ==
    /\ calls <= retries + 1
    /\ (pc = "resolved" /\ error # NoError) =>
           (calls = retries + 1 /\ attempts = retries)

C3_Witness ==
    /\ pc = "resolved"
    /\ error # NoError
    /\ retries = 2
    /\ calls = 3

\* C4: when the first k attempts failed and attempt k + 1 succeeded, the
\* call resolves with (null, the body as read) after exactly k + 1
\* invocations of fetch (k is the retry counter), and a settled call never
\* invokes fetch again.
C4_SuccessAfterRetries ==
    /\ [] ((pc = "resolved" /\ error = NoError) =>
              (calls = attempts + 1 /\ data = ReadBody(response).data))
    /\ [][Settled => (calls' = calls /\ pc' = pc /\ result' = result)]_vars

\* retries = 2, two failures, then {"ok":true}: (null, {ok:true}) after 3 calls
C4_Witness ==
    /\ pc = "resolved"
    /\ error = NoError
    /\ retries = 2
    /\ attempts = 2
    /\ calls = 3
    /\ data = Obj("ok=true")

\* C5 (as claimed): when the response of the final attempt has a non-ok
\* status, the call resolves with (error, null) and error.status is the
\* status of that response.  Stated for the responses whose body arrives
\* complete, so that the only fault left is the decoding of the body.
C5_NonOkStatus ==
    ( /\ pc = "resolved"
      /\ response # NoResponse
      /\ ~ Ok(response.status)
      /\ ~ response.broken ) =>
        (error # NoError /\ data = Null /\ error.status = response.status)

\* a media type is case-insensitive: the Content-Type declares JSON when its
\* lower-cased value contains application/json
DeclaresJSON(contentType) ==
    contentType.has /\ Includes(ToLowerCase(contentType.chars), APPLICATION_JSON)

\* C6 (as claimed): an ok response that declares a JSON content type and
\* carries well-formed JSON resolves the call with (null, the decoded JSON).
C6_JsonDecoded ==
    ( /\ pc = "resolved"
      /\ response # NoResponse
      /\ Ok(response.status)
      /\ DeclaresJSON(response.contentType)
      /\ WellFormedJSON(response.text)
      /\ ~ response.broken ) =>
        (error = NoError /\ data = JSONParse(response.text))

\* C7: with timeout > 0 and a transport that never answers but honours the
\* abort signal, a call whose fetch is in flight eventually resolves with
\* (error, null), and it is resolved only once the timeout timer has fired.
C7_TimeoutResolves ==
    /\ (pc = "fetching" /\ timeout > 0) ~>
           (pc = "resolved" /\ error # NoError /\ data = Null)
    /\ [] (pc = "resolved" => (timer = "fired" /\ aborted /\ error = AbortError))

C7_Witness ==
    /\ pc = "resolved"
    /\ timeout > 0
    /\ retries >= 1
    /\ timer = "fired"
    /\ error = AbortError
    /\ data = Null

\* C8 (as claimed): every retry is issued with a cancellation signal that is
\* not already aborted, also after an attempt that the timeout aborted.
C8_FreshSignalPerRetry ==
    [][(calls' = calls + 1 /\ attempts' >= 1) => ~ aborted']_vars

\* C9 (as claimed): with timeout > 0, whenever a fetch of the call is in
\* flight, a timeout timer for it is pending or has fired.
C9_TimerPerAttempt ==
    (pc = "fetching" /\ timeout > 0) => timer \in {"pending", "fired"}

\* a step in which an attempt fails: the fetch or the body read rejects, or
\* the response read is not ok
FailedAttempt ==
    /\ pc \in {"fetching", "reading"}
    /\ pc' # "reading"
    /\ ~ (pc' = "resolved" /\ result'[1] = NoError)
    /\ (pc' # pc \/ calls' # calls)

\* C10: whatever its kind (network fault, abort, non-ok status, body-read
\* fault), a failed attempt with attempts < retries adds one to attempts and
\* is followed by one more fetch; with the budget spent it resolves the call
\* with (the caught error, null) and invokes nothing.
C10_UniformRetry ==
    [][FailedAttempt =>
        IF attempts < retries
        THEN /\ attempts' = attempts + 1
             /\ calls' = calls + 1
             /\ pc' = "fetching"
        ELSE /\ attempts' = attempts
             /\ calls' = calls
             /\ pc' = "resolved"
             /\ result'[1] # NoError
             /\ result'[2] = Null]_vars

\* a timeout abort consumed the retry budget like any other fault
C10_Witness ==
    /\ pc = "resolved"
    /\ error = AbortError
    /\ retries = 2
    /\ attempts = 2
    /\ calls = 3

(* --------------------------- getResponseType -------------------------- *)

\* String.prototype.startsWith
StartsWith(str, prefix) ==
    Len(str) >= Len(prefix) /\ SubSeq(str, 1, Len(prefix)) = prefix

UpperChar(c) ==
    IF \E i \in 1..Len(LOWER_LETTERS) : LOWER_LETTERS[i] = c
    THEN UPPER_LETTERS[CHOOSE i \in 1..Len(LOWER_LETTERS) : LOWER_LETTERS[i] = c]
    ELSE c

Recase(casing, str) ==
    [i \in 1..Len(str) |->
        CASE casing = "upper" -> UpperChar(str[i])
          [] casing = "capital" -> IF i = 1 THEN UpperChar(str[i]) ELSE str[i]
          [] casing = "mixed" -> IF i % 2 = 0 THEN UpperChar(str[i]) ELSE str[i]
          [] OTHER -> str[i]]

\* The Content-Type values of the model, in lower case, by the category the
\* classification rules give them.
JsonTypes ==
    { "application/json",
      "application/json; charset=utf-8",
      "application/json;charset=utf-8",
      "text/plain; x=application/json",
      "application/problem; application/json" }

TextTypes ==
    { "text/html",
      "text/plain",
      "text/css",
      "text/javascript",
      "text/csv; application/pdf" }

MultipartTypes ==
    { "multipart/form-data",
      "multipart/mixed",
      "multipart/related; type=application/pdf",
      "multipart/byteranges; type=image/png" }

BinaryTypes ==
    { "image/png",
      "image/jpeg",
      "image/svg+xml",
      "audio/mpeg",
      "audio/ogg",
      "video/mp4",
      "video/webm",
      "application/octet-stream",
      "application/pdf",
      "x-application/pdf",
      "binary; application/octet-stream" }

UnknownTypes ==
    { "application/xml",
      "application/zip",
      "application/vnd.api+json",
      "application/x-www-form-urlencoded",
      "x-image/png",
      "x-text/html",
      "x-multipart/mixed",
      "xaudio/ogg",
      "x-video/mp4",
      "" }

MediaTypes ==
    JsonTypes \cup TextTypes \cup MultipartTypes \cup BinaryTypes \cup UnknownTypes

\* the characters of each value
Chars(b) ==
    CASE b = "application/json" ->
           <<"a","p","p","l","i","c","a","t","i","o","n","/","j","s","o","n">>
      [] b = "application/json; charset=utf-8" ->
           <<"a","p","p","l","i","c","a","t","i","o","n","/","j","s","o","n",";"," ","c","h","a","r","s","e","t","=","u","t","f","-","8">>
      [] b = "application/json;charset=utf-8" ->
           <<"a","p","p","l","i","c","a","t","i","o","n","/","j","s","o","n",";","c","h","a","r","s","e","t","=","u","t","f","-","8">>
      [] b = "text/plain; x=application/json" ->
           <<"t","e","x","t","/","p","l","a","i","n",";"," ","x","=","a","p","p","l","i","c","a","t","i","o","n","/","j","s","o","n">>
      [] b = "application/problem; application/json" ->
           <<"a","p","p","l","i","c","a","t","i","o","n","/","p","r","o","b","l","e","m",";"," ","a","p","p","l","i","c","a","t","i","o","n","/","j","s","o","n">>
      [] b = "text/html" ->
           <<"t","e","x","t","/","h","t","m","l">>
      [] b = "text/plain" ->
           <<"t","e","x","t","/","p","l","a","i","n">>
      [] b = "text/css" ->
           <<"t","e","x","t","/","c","s","s">>
      [] b = "text/javascript" ->
           <<"t","e","x","t","/","j","a","v","a","s","c","r","i","p","t">>
      [] b = "text/csv; application/pdf" ->
           <<"t","e","x","t","/","c","s","v",";"," ","a","p","p","l","i","c","a","t","i","o","n","/","p","d","f">>
      [] b = "multipart/form-data" ->
           <<"m","u","l","t","i","p","a","r","t","/","f","o","r","m","-","d","a","t","a">>
      [] b = "multipart/mixed" ->
           <<"m","u","l","t","i","p","a","r","t","/","m","i","x","e","d">>
      [] b = "multipart/related; type=application/pdf" ->
           <<"m","u","l","t","i","p","a","r","t","/","r","e","l","a","t","e","d",";"," ","t","y","p","e","=","a","p","p","l","i","c","a","t","i","o","n","/","p","d","f">>
      [] b = "multipart/byteranges; type=image/png" ->
           <<"m","u","l","t","i","p","a","r","t","/","b","y","t","e","r","a","n","g","e","s",";"," ","t","y","p","e","=","i","m","a","g","e","/","p","n","g">>
      [] b = "image/png" ->
           <<"i","m","a","g","e","/","p","n","g">>
      [] b = "image/jpeg" ->
           <<"i","m","a","g","e","/","j","p","e","g">>
      [] b = "image/svg+xml" ->
           <<"i","m","a","g","e","/","s","v","g","+","x","m","l">>
      [] b = "audio/mpeg" ->
           <<"a","u","d","i","o","/","m","p","e","g">>
      [] b = "audio/ogg" ->
           <<"a","u","d","i","o","/","o","g","g">>
      [] b = "video/mp4" ->
           <<"v","i","d","e","o","/","m","p","4">>
      [] b = "video/webm" ->
           <<"v","i","d","e","o","/","w","e","b","m">>
      [] b = "application/octet-stream" ->
           <<"a","p","p","l","i","c","a","t","i","o","n","/","o","c","t","e","t","-","s","t","r","e","a","m">>
      [] b = "application/pdf" ->
           <<"a","p","p","l","i","c","a","t","i","o","n","/","p","d","f">>
      [] b = "x-application/pdf" ->
           <<"x","-","a","p","p","l","i","c","a","t","i","o","n","/","p","d","f">>
      [] b = "binary; application/octet-stream" ->
           <<"b","i","n","a","r","y",";"," ","a","p","p","l","i","c","a","t","i","o","n","/","o","c","t","e","t","-","s","t","r","e","a","m">>
      [] b = "application/xml" ->
           <<"a","p","p","l","i","c","a","t","i","o","n","/","x","m","l">>
      [] b = "application/zip" ->
           <<"a","p","p","l","i","c","a","t","i","o","n","/","z","i","p">>
      [] b = "application/vnd.api+json" ->
           <<"a","p","p","l","i","c","a","t","i","o","n","/","v","n","d",".","a","p","i","+","j","s","o","n">>
      [] b = "application/x-www-form-urlencoded" ->
           <<"a","p","p","l","i","c","a","t","i","o","n","/","x","-","w","w","w","-","f","o","r","m","-","u","r","l","e","n","c","o","d","e","d">>
      [] b = "x-image/png" ->
           <<"x","-","i","m","a","g","e","/","p","n","g">>
      [] b = "x-text/html" ->
           <<"x","-","t","e","x","t","/","h","t","m","l">>
      [] b = "x-multipart/mixed" ->
           <<"x","-","m","u","l","t","i","p","a","r","t","/","m","i","x","e","d">>
      [] b = "xaudio/ogg" ->
           <<"x","a","u","d","i","o","/","o","g","g">>
      [] b = "x-video/mp4" ->
           <<"x","-","v","i","d","e","o","/","m","p","4">>
      [] b = "" ->
           <<>>

\* a response header as getResponseType receives it: absent, or a media
\* type in some letter case
ClassifierInputs ==
    { [base |-> "", casing |-> "lower", contentType |-> NoHeader] } \cup
    { [base |-> b, casing |-> c, contentType |-> Header(Recase(c, Chars(b)))] :
          b \in MediaTypes, c \in {"lower", "upper", "capital", "mixed"} }

\* the rules of getResponseType on a lower-cased value
ResponseTypeOf(contentType) ==
    IF Includes(contentType, APPLICATION_JSON) THEN "json"
    ELSE IF StartsWith(contentType, <<"t","e","x","t","/">>) THEN "text"
    ELSE IF StartsWith(contentType, <<"m","u","l","t","i","p","a","r","t","/">>)
    THEN "multipart"
    ELSE IF \/ Includes(contentType, Chars("application/octet-stream"))
            \/ StartsWith(contentType, <<"i","m","a","g","e","/">>)
            \/ StartsWith(contentType, <<"a","u","d","i","o","/">>)
            \/ StartsWith(contentType, <<"v","i","d","e","o","/">>)
            \/ Includes(contentType, Chars("application/pdf"))
    THEN "blob"
    ELSE "unknown"

\* Variant: the header value is not lower-cased before it is matched.
getResponseType_CaseSensitive(header) ==
    ResponseTypeOf(IF header.has THEN header.chars ELSE <<>>)

\* (response.headers.get("Content-Type") || "").toLowerCase(), then the rules
getResponseType(header) ==
    ResponseTypeOf(ToLowerCase(IF header.has THEN header.chars ELSE <<>>))

\* getResponseType is applied to a response with the given Content-Type
Classify(in) ==
    /\ classified = NoClassification
    /\ classified' = [ base |-> in.base, casing |-> in.casing,
                       contentType |-> in.contentType,
                       type |-> getResponseType(in.contentType) ]
    /\ UNCHANGED << pc, options, autoJSON, retries, timeout, opts, aborted,
                    timer, attempts, calls, response, result >>
    /\ UNCHANGED << csrfOptions, dom, cachedToken, token, lookups, tokenCalls,
                    normalization, helperVars, passed >>

NextClassify == \E in \in ClassifierInputs : Classify(in)

SpecClassify == Init /\ [][NextClassify]_vars

\* C18: getResponseType maps the Content-Type, whatever its letter case, by
\* first match: contains application/json -> json; starts with text/ ->
\* text; starts with multipart/ -> multipart; starts with image/, audio/ or
\* video/, or contains application/octet-stream or application/pdf ->
\* binary ("blob"); anything else, an absent header included -> unknown.
C18_Classification ==
    classified.type # "none" =>
        classified.type =
            CASE ~ classified.contentType.has -> "unknown"
              [] classified.base \in JsonTypes -> "json"
              [] classified.base \in TextTypes -> "text"
              [] classified.base \in MultipartTypes -> "multipart"
              [] classified.base \in BinaryTypes -> "blob"
              [] OTHER -> "unknown"

\* an upper-case multipart type that also names application/pdf was
\* classified, by first match, as multipart
C18_Witness ==
    /\ classified.base = "multipart/related; type=application/pdf"
    /\ classified.casing = "upper"
    /\ classified.type = "multipart"

(* ---------------------------- normalizeError -------------------------- *)

\* The values handed to normalizeError.  A Response: what the function
\* reads of it, whether its body was already consumed (bodyUsed) and
\* whether its stream fails while read (broken).
ErrorResponses ==
    [ t : {"Response"}, status : Statuses, statusText : {"", "Not Found"},
      url : {"/x"}, text : BodyTexts, bodyUsed : BOOLEAN, broken : BOOLEAN ]

\* an Error instance: its message and its stack (undefined on some engines)
Errors ==
    [ t : {"Error"}, message : {"", "boom"},
      stack : { Undefined, Str("Error: at safeFetch") } ]

\* thrown values that are neither: a string, null, undefined, and a plain
\* object that merely has a status property
OtherThrown == { Str("boom"), Null, Undefined, Obj("status=500") }

Thrown == ErrorResponses \cup Errors \cup OtherThrown

InstanceofResponse(e) == e.t = "Response"

InstanceofError(e) == e.t = "Error"

\* error.clone() throws a TypeError when the body was already consumed
CloneThrows(resp) == resp.bodyUsed

\* clone.json(): reads the whole stream, then parses.  It rejects when the
\* stream fails or the text is not JSON; either way the clone's body is
\* consumed afterwards.
CloneJson(resp) ==
    IF ~ resp.broken /\ WellFormedJSON(resp.text)
    THEN [fault |-> FALSE, value |-> JSONParse(resp.text), used |-> TRUE]
    ELSE [fault |-> TRUE, value |-> Null, used |-> TRUE]

\* clone.text() on the same clone: rejects with a TypeError when the body
\* was already consumed, or when the stream fails
CloneText(resp, used) ==
    IF used \/ resp.broken
    THEN [fault |-> TRUE, value |-> Null]
    ELSE [fault |-> FALSE, value |-> Str(resp.text)]

\* try { clone = error.clone();
\*       body = await clone.json().catch(() => clone.text()) }
\* catch { body = null }
ResponseBody(resp) ==
    IF CloneThrows(resp)
    THEN Null
    ELSE IF ~ CloneJson(resp).fault
    THEN CloneJson(resp).value
    ELSE IF ~ CloneText(resp, CloneJson(resp).used).fault
    THEN CloneText(resp, CloneJson(resp).used).value
    ELSE Null

\* x || fallback on strings
OrElse(x, fallback) == IF x = "" THEN fallback ELSE x

\* Variant: the runtime variant carries a status field as well.
normalizeError_StatusEverywhere(e) ==
    IF InstanceofResponse(e)
    THEN [ rejected |-> FALSE,
           value |-> [ type |-> "http", status |-> e.status,
                       statusText |-> OrElse(e.statusText, ""),
                       url |-> e.url, body |-> ResponseBody(e) ] ]
    ELSE IF InstanceofError(e)
    THEN [ rejected |-> FALSE,
           value |-> [ type |-> "js", status |-> NoStatus,
                       message |-> OrElse(e.message, "Unknown error"),
                       stack |-> e.stack ] ]
    ELSE [ rejected |-> FALSE, value |-> [ type |-> "unknown", value |-> e ] ]

\* Variant: the body is decoded outside the try block, so a failed decode
\* rejects the promise.
normalizeError_NoTry(e) ==
    IF InstanceofResponse(e)
    THEN IF CloneThrows(e) \/ (CloneJson(e).fault
                               /\ CloneText(e, CloneJson(e).used).fault)
         THEN [ rejected |-> TRUE, value |-> Null ]
         ELSE [ rejected |-> FALSE,
                value |-> [ type |-> "http", status |-> e.status,
                            statusText |-> OrElse(e.statusText, ""),
                            url |-> e.url, body |-> ResponseBody(e) ] ]
    ELSE IF InstanceofError(e)
    THEN [ rejected |-> FALSE,
           value |-> [ type |-> "js",
                       message |-> OrElse(e.message, "Unknown error"),
                       stack |-> e.stack ] ]
    ELSE [ rejected |-> FALSE, value |-> [ type |-> "unknown", value |-> e ] ]

\* The settlement of the promise normalizeError returns.
normalizeError(e) ==
    IF InstanceofResponse(e)
    THEN [ rejected |-> FALSE,
           value |-> [ type |-> "http", status |-> e.status,
                       statusText |-> OrElse(e.statusText, ""),
                       url |-> e.url, body |-> ResponseBody(e) ] ]
    ELSE IF InstanceofError(e)
    THEN [ rejected |-> FALSE,
           value |-> [ type |-> "js",
                       message |-> OrElse(e.message, "Unknown error"),
                       stack |-> e.stack ] ]
    ELSE [ rejected |-> FALSE, value |-> [ type |-> "unknown", value |-> e ] ]

\* normalizeError(e) is called: the promise is pending
NormalizeCall(e) ==
    /\ normalization.pc = "idle"
    /\ normalization' = [pc |-> "pending", error |-> e, out |-> Null]
    /\ UNCHANGED << pc, options, autoJSON, retries, timeout, opts, aborted,
                    timer, attempts, calls, response, result >>
    /\ UNCHANGED << csrfOptions, dom, cachedToken, token, lookups, tokenCalls,
                    classified, helperVars, passed >>

\* the promise settles
NormalizeSettles ==
    /\ normalization.pc = "pending"
    /\ normalization' =
          [ normalization EXCEPT
              !.pc = IF normalizeError(normalization.error).rejected
                     THEN "rejected" ELSE "resolved",
              !.out = normalizeError(normalization.error).value ]
    /\ UNCHANGED << pc, options, autoJSON, retries, timeout, opts, aborted,
                    timer, attempts, calls, response, result >>
    /\ UNCHANGED << csrfOptions, dom, cachedToken, token, lookups, tokenCalls,
                    classified, helperVars, passed >>

NextNormalize ==
    \/ \E e \in Thrown : NormalizeCall(e)
    \/ NormalizeSettles

SpecNormalize == Init /\ [][NextNormalize]_vars

\* the shape of a normalized error: a tag and the fields of that variant
IsNormalized(e) ==
    \/ DOMAIN e = {"type", "status", "statusText", "url", "body"} /\ e.type = "http"
    \/ DOMAIN e = {"type", "message", "stack"} /\ e.type = "js"
    \/ DOMAIN e = {"type", "value"} /\ e.type = "unknown"

(* ---------------- properties: safeFetch and the normalizer ------------ *)

\* C11 (as claimed): whenever safeFetch resolves with a non-null error, that
\* error is a normalized error, one of the variants http, runtime ("js") or
\* unknown; a non-ok response gives the http variant, a network fault or a
\* timeout abort the runtime variant.
C11_ErrorIsNormalized ==
    (pc = "resolved" /\ error # NoError) =>
        /\ IsNormalized(error)
        /\ (error.status # NoStatus => error.type = "http")
        /\ (error \in {NetworkError, AbortError} => error.type = "js")

\* C12 (as claimed): when autoJSON is true and the serialization of the body
\* throws, safeFetch does not raise: it resolves with (error, null), and
\* fetch is not invoked.
C12_SerializationFailure ==
    (pc # "idle" /\ autoJSON /\ StringifyThrows(options.body)) =>
        (pc = "resolved" /\ error # NoError /\ data = Null /\ calls = 0)

(* ---------------------- properties: normalizeError -------------------- *)

thrown == normalization.error

normalized == normalization.out

\* what every variant must satisfy: one variant per input, chosen by the
\* class of the input, http fields copied from the Response, the unknown
\* variant carrying the value unchanged, status present in http only
VariantOf(e, o) ==
    /\ IsNormalized(o)
    /\ InstanceofResponse(e) =>
           /\ o.type = "http"
           /\ o.status = e.status
           /\ o.statusText = e.statusText
           /\ o.url = e.url
    /\ (~ InstanceofResponse(e) /\ InstanceofError(e)) =>
           (o.type = "js" /\ o.stack = e.stack)
    /\ (~ InstanceofResponse(e) /\ ~ InstanceofError(e)) =>
           (o.type = "unknown" /\ o.value = e)
    /\ ("status" \in DOMAIN o) <=> (o.type = "http")

\* C19 (as claimed): normalizeError returns exactly one variant for every
\* input; a Response gives http with status, statusText, url and body; an
\* Error gives the runtime variant with its message and its stack; any
\* other value gives unknown with the value unchanged; status is present in
\* the http variant only.
C19_OneVariant_Original ==
    normalization.pc = "resolved" =>
        /\ VariantOf(thrown, normalized)
        /\ InstanceofError(thrown) => normalized.message = thrown.message

\* C19 (amended): as above, but the runtime variant carries the Error's
\* message only when that message is not empty; for an empty message it
\* carries "Unknown error".
C19_OneVariant ==
    normalization.pc = "resolved" =>
        /\ VariantOf(thrown, normalized)
        /\ InstanceofError(thrown) =>
               normalized.message =
                   (IF thrown.message = "" THEN "Unknown error"
                    ELSE thrown.message)

\* an Error with an empty message was normalized
C19_Witness ==
    /\ normalization.pc = "resolved"
    /\ InstanceofError(thrown)
    /\ thrown.message = ""
    /\ normalized.type = "js"
    /\ normalized.message = "Unknown error"

\* C20: the promise of normalizeError is never rejected: for every input it
\* resolves to a normalized error, and for a Response whose body cannot be
\* decoded at all (already consumed, or the stream fails) only the body
\* field degrades, to null.
C20_NeverFails ==
    /\ normalization.pc # "rejected"
    /\ normalization.pc = "resolved" =>
        /\ IsNormalized(normalized)
        /\ (InstanceofResponse(thrown) /\ (thrown.bodyUsed \/ thrown.broken)) =>
              /\ normalized.body = Null
              /\ normalized.status = thrown.status
              /\ normalized.url = thrown.url

\* a Response whose body was already consumed was normalized
C20_Witness ==
    /\ normalization.pc = "resolved"
    /\ InstanceofResponse(thrown)
    /\ thrown.bodyUsed
    /\ normalized.type = "http"
    /\ normalized.body = Null

\* C24: for a Response whose body is valid JSON the http variant carries the
\* parsed JSON; when the body is not valid JSON it carries the body decoded
\* as text; body is null only when the text cannot be decoded either (the
\* stream fails, or the body was consumed before the call).
C24_TextFallback ==
    (normalization.pc = "resolved" /\ InstanceofResponse(thrown)) =>
        normalized.body =
            IF thrown.bodyUsed \/ thrown.broken THEN Null
            ELSE IF WellFormedJSON(thrown.text) THEN JSONParse(thrown.text)
            ELSE Str(thrown.text)

(* ---------------------- getCSRFToken, fetchWithCSRF -------------------- *)

MaxTokenCalls == 3

\* the tokens the three sources can hold, one per source
INPUT_TOKEN == Str("input-token")

META_TOKEN == Str("meta-token")

COOKIE_TOKEN == Str("cookie-token")

\* What the three lookups give: input.value of the hidden field, the content
\* of the meta tag, the result of getCookie('csrftoken').  Null: no such
\* element or cookie; "": present but empty.
DomStates ==
    [ input : {Null, Str(""), INPUT_TOKEN},
      meta : {Null, Str(""), META_TOKEN},
      cookie : {Null, Str(""), COOKIE_TOKEN} ]

\* Variants of the resolver.  The cache is not consulted.
getCSRFToken_NoCache(cache, page) ==
    IF Truthy(page.input)
    THEN [value |-> page.input, cache |-> page.input, lookups |-> 1]
    ELSE IF Truthy(page.meta)
    THEN [value |-> page.meta, cache |-> page.meta, lookups |-> 2]
    ELSE IF Truthy(page.cookie)
    THEN [value |-> page.cookie, cache |-> page.cookie, lookups |-> 3]
    ELSE [value |-> Null, cache |-> cache, lookups |-> 3]

\* A failed resolution is remembered (as undefined) and answered from the cache.
getCSRFToken_CachesFailure(cache, page) ==
    IF cache # Null
    THEN [value |-> IF cache = Undefined THEN Null ELSE cache,
          cache |-> cache, lookups |-> 0]
    ELSE IF Truthy(page.input)
    THEN [value |-> page.input, cache |-> page.input, lookups |-> 1]
    ELSE IF Truthy(page.meta)
    THEN [value |-> page.meta, cache |-> page.meta, lookups |-> 2]
    ELSE IF Truthy(page.cookie)
    THEN [value |-> page.cookie, cache |-> page.cookie, lookups |-> 3]
    ELSE [value |-> Null, cache |-> Undefined, lookups |-> 3]

\* The cookie is tried before the hidden field and the meta tag.
getCSRFToken_CookieFirst(cache, page) ==
    IF Truthy(cache)
    THEN [value |-> cache, cache |-> cache, lookups |-> 0]
    ELSE IF Truthy(page.cookie)
    THEN [value |-> page.cookie, cache |-> page.cookie, lookups |-> 1]
    ELSE IF Truthy(page.input)
    THEN [value |-> page.input, cache |-> page.input, lookups |-> 2]
    ELSE IF Truthy(page.meta)
    THEN [value |-> page.meta, cache |-> page.meta, lookups |-> 3]
    ELSE [value |-> Null, cache |-> cache, lookups |-> 3]

\* One call of getCSRFToken with the closure variable `cache` on the page
\* `page`: the value returned, the closure variable afterwards, and the
\* number of lookups (querySelector, querySelector, getCookie) it made.
getCSRFToken(cache, page) ==
    IF Truthy(cache)
    THEN [value |-> cache, cache |-> cache, lookups |-> 0]
    ELSE IF Truthy(page.input)
    THEN [value |-> page.input, cache |-> page.input, lookups |-> 1]
    ELSE IF Truthy(page.meta)
    THEN [value |-> page.meta, cache |-> page.meta, lookups |-> 2]
    ELSE IF Truthy(page.cookie)
    THEN [value |-> page.cookie, cache |-> page.cookie, lookups |-> 3]
    ELSE [value |-> Null, cache |-> cache, lookups |-> 3]

\* the effect of a getCSRFToken call on the resolver's state
ResolveToken ==
    /\ token' = getCSRFToken(cachedToken, dom).value
    /\ cachedToken' = getCSRFToken(cachedToken, dom).cache
    /\ lookups' = lookups + getCSRFToken(cachedToken, dom).lookups
    /\ tokenCalls' = tokenCalls + 1

\* getCSRFToken() is called on its own
TokenCall ==
    /\ tokenCalls < MaxTokenCalls
    /\ ResolveToken
    /\ UNCHANGED << pc, options, autoJSON, retries, timeout, opts, aborted,
                    timer, attempts, calls, response, result >>
    /\ UNCHANGED << csrfOptions, dom, classified, normalization, helperVars,
                    passed >>

\* the page changes: a source appears, disappears, is emptied or filled
SetSource(source, val) ==
    /\ dom[source] # val
    /\ dom' = [dom EXCEPT ![source] = val]
    /\ UNCHANGED << pc, options, autoJSON, retries, timeout, opts, aborted,
                    timer, attempts, calls, response, result >>
    /\ UNCHANGED << csrfOptions, cachedToken, token, lookups, tokenCalls,
                    classified, normalization, helperVars, passed >>

NextToken ==
    \/ TokenCall
    \/ \E d \in DomStates, source \in {"input", "meta", "cookie"} :
          SetSource(source, d[source])

SpecToken == Init /\ [][NextToken]_vars

\* a header value that is the JS null
NullHeaderValue == [has |-> TRUE, chars |-> <<>>, isNull |-> TRUE]

\* a token as a header value; the token is one opaque symbol
HeaderOf(val) == IF val = Null THEN NullHeaderValue ELSE Header(<< val.v >>)

\* options.headers of a fetchWithCSRF caller
CsrfOptionHeaders ==
    { NoHeaders,
      [NoHeaders EXCEPT !["Accept"] = Header(TEXT_HTML)],
      [NoHeaders EXCEPT !["X-CSRFToken"] = HeaderOf(Str("caller-token"))] }

\* { "X-CSRFToken": csrfToken, ...(options.headers || {}) }
CsrfHeaders(csrfToken, optionHeaders) ==
    [h \in HeaderNames |->
        IF optionHeaders[h].has THEN optionHeaders[h]
        ELSE IF h = "X-CSRFToken" THEN HeaderOf(csrfToken)
        ELSE NoHeader]

\* Variant: the method defaults to GET.
CsrfRequest_DefaultGet(o, csrfToken) ==
    [ body |-> o.body,
      headers |-> CsrfHeaders(csrfToken, o.headers),
      method |-> IF Truthy(o.method) THEN o.method ELSE Str("GET") ]

\* { ...options, headers, method: options.method || "POST" }
CsrfRequest(o, csrfToken) ==
    [ body |-> o.body,
      headers |-> CsrfHeaders(csrfToken, o.headers),
      method |-> IF Truthy(o.method) THEN o.method ELSE Str("POST") ]

\* Variant: the request is built in place, in the caller's own object:
\* method and X-CSRFToken are written into it and its body is serialized.
fetchWithCSRF_MutatesOptions(o) ==
    /\ pc = "idle"
    /\ csrfOptions' =
          [ CsrfRequest(o, getCSRFToken(cachedToken, dom).value) EXCEPT
              !.body = IF ShouldStringify(TRUE, o.body) /\ ~ StringifyThrows(o.body)
                       THEN JSONStringify(o.body) ELSE o.body ]
    /\ ResolveToken
    /\ safeFetch(CsrfRequest(o, getCSRFToken(cachedToken, dom).value),
                 TRUE, 0, 0)
    /\ passed' = o
    /\ UNCHANGED << dom, classified, normalization, helperVars >>

\* Variant: without a token the call fails on the client.
fetchWithCSRF_RequiresToken(o) ==
    /\ pc = "idle"
    /\ csrfOptions' = o
    /\ ResolveToken
    /\ IF getCSRFToken(cachedToken, dom).value = Null
       THEN /\ pc' = "rejected"
            /\ result' = << NetworkError, Null >>
            /\ options' = CsrfRequest(o, Null)
            /\ autoJSON' = TRUE
            /\ UNCHANGED << retries, timeout, opts, aborted, timer, attempts,
                            calls, response >>
       ELSE safeFetch(CsrfRequest(o, getCSRFToken(cachedToken, dom).value),
                      TRUE, 0, 0)
    /\ passed' = o
    /\ UNCHANGED << dom, classified, normalization, helperVars >>

\* fetchWithCSRF(url, o), up to the first suspension inside safeFetch: the
\* token is resolved, the request built and handed to safeFetch with
\* { autoJSON: true } (retries and timeout take their defaults, 0).
fetchWithCSRF(o) ==
    /\ pc = "idle"
    /\ csrfOptions' = o
    /\ ResolveToken
    /\ safeFetch(CsrfRequest(o, getCSRFToken(cachedToken, dom).value),
                 TRUE, 0, 0)
    /\ passed' = o
    /\ UNCHANGED << dom, classified, normalization, helperVars >>

\* the responses of the transport to a fetchWithCSRF request
CsrfResponses ==
    [ status : {200, 404},
      contentType : { Header(APPLICATION_JSON), Header(TEXT_HTML) },
      text : { JSON_OBJECT_TEXT, HTML_TEXT }, broken : {FALSE} ]

\* The page and the resolver's cache as a fetchWithCSRF call finds them; the
\* cache holds nothing or a token resolved earlier.  Counters count from here.
InitCSRF ==
    /\ pc = "idle"
    /\ options = NoOptions
    /\ autoJSON = TRUE
    /\ retries = 0
    /\ timeout = 0
    /\ opts = NoOptions
    /\ aborted = FALSE
    /\ timer = "none"
    /\ attempts = 0
    /\ calls = 0
    /\ response = NoResponse
    /\ result = << NoError, Null >>
    /\ csrfOptions = NoOptions
    /\ dom \in DomStates
    /\ cachedToken \in {Null, INPUT_TOKEN, META_TOKEN, COOKIE_TOKEN}
    /\ token = Null
    /\ lookups = 0
    /\ tokenCalls = 0
    /\ classified = NoClassification
    /\ normalization = NoNormalization
    /\ InitHelpers
    /\ passed = NoOptions

NextCSRF ==
    \/ \E o \in [body : Bodies, headers : CsrfOptionHeaders, method : Methods] : fetchWithCSRF(o)
    \/ \E resp \in CsrfResponses : FetchResolves(resp)
    \/ FetchRejects
    \/ ReadResolves
    \/ ReadRejects

SpecCSRF == InitCSRF /\ [][NextCSRF]_vars

(* ------------------- properties of the CSRF layer ---------------------- *)

\* a source value that is absent or empty
Empty(val) == ~ Truthy(val)

\* a step that is one call of getCSRFToken
TokenCallStep == tokenCalls' = tokenCalls + 1

HandedOff == tokenCalls >= 1

C15_CacheOnce ==
    /\ [](token # Null => cachedToken = token)
    /\ [][cachedToken # Null =>
            /\ cachedToken' = cachedToken
            /\ lookups' = lookups
            /\ TokenCallStep => token' = cachedToken]_vars

C15_Witness ==
    /\ tokenCalls = 2
    /\ lookups = 1
    /\ token = INPUT_TOKEN
    /\ dom.input = Null
    /\ dom.meta = META_TOKEN

\* C16: a failed resolution is not cached: a call that found no token leaves
\* the cache empty, and the next call queries the sources again and returns
\* a token exactly if one is available by then.
C16_FailureNotCached ==
    /\ []((tokenCalls >= 1 /\ token = Null) => cachedToken = Null)
    /\ [][(TokenCallStep /\ tokenCalls >= 1 /\ token = Null) =>
            /\ lookups' > lookups
            /\ token' # Null
                 <=> ~ (Empty(dom.input) /\ Empty(dom.meta) /\ Empty(dom.cookie))]_vars

C16_Witness ==
    /\ tokenCalls = 2
    /\ lookups = 5
    /\ token = META_TOKEN

\* C17: an uncached call takes the hidden field's value if non-empty, else
\* the meta tag's content if non-empty, else the cookie if non-empty, and
\* returns null only when all three are absent or empty.
C17_SourcePriority ==
    [][(TokenCallStep /\ cachedToken = Null) =>
          /\ ~ Empty(dom.input) => token' = dom.input
          /\ token' = META_TOKEN => (Empty(dom.input) /\ dom.meta = META_TOKEN)
          /\ token' = COOKIE_TOKEN =>
                (Empty(dom.input) /\ Empty(dom.meta) /\ dom.cookie = COOKIE_TOKEN)
          /\ token' = Null
               <=> (Empty(dom.input) /\ Empty(dom.meta) /\ Empty(dom.cookie))]_vars

C17_Witness ==
    /\ tokenCalls = 1
    /\ token = COOKIE_TOKEN
    /\ dom.input = Str("")
    /\ dom.meta = Null
    /\ lookups = 3

(* -------------------------- objectContainsFile ------------------------- *)

MaxDepth == 3

FILE == [t |-> "File", v |-> "avatar.png"]

\* a FileList with the given number of files
FileList(n) == [t |-> "FileList", length |-> n]

\* a plain object or an array; kids are its Object.values
PlainObject(kids) == [t |-> "object", kids |-> kids]

\* a FormData; kids are its values()
FormDataOf(kids) == [t |-> "FormData", kids |-> kids]

NUMBER == [t |-> "number", v |-> "42"]

\* The innermost values: leaves, empty containers and flat containers.
Innermost ==
    { Str("alice"), Str(""), NUMBER, Null, Undefined } \cup
    { FILE, BLOB, FileList(1) } \cup
    { FileList(0), PlainObject(<< >>), FormDataOf(<< >>),
      PlainObject(<< Str("alice") >>),
      PlainObject(<< Str("alice"), NUMBER >>),
      FormDataOf(<< Str("alice") >>),
      FormDataOf(<< Str("alice"), FILE >>) }

\* a value wrapped in objects, with text leaves beside it, up to depth d
RECURSIVE Structures(_)
Structures(d) ==
    IF d = 0 THEN Innermost
    ELSE Structures(d - 1) \cup
         { PlainObject(<< Str("alice"), x >>) : x \in Structures(d - 1) } \cup
         { PlainObject(<< x, NUMBER >>) : x \in Structures(d - 1) } \cup
         { PlainObject(<< x >>) : x \in Structures(d - 1) }

\* The names a call in objectContainsFile can resolve: the declarations at
\* the top level of the module.  `containsFile` is declared only inside
\* formParser of the older file, not here.
TopLevelNames ==
    { "safeFetch", "formParser", "objectContainsFile", "getResponseType",
      "safelyReadResponse", "normalizeError", "createHeaders", "debounce",
      "throttle", "getCookie", "getCSRFToken", "fetchWithCSRF" }

\* objectContainsFile(obj): "true", "false", or the ReferenceError thrown
\* when the identifier containsFile is evaluated.
RECURSIVE objectContainsFile(_)
objectContainsFile(obj) ==
    IF obj.t \in {"File", "Blob"} THEN "true"
    ELSE IF obj.t = "FileList" /\ obj.length > 0 THEN "true"
    ELSE IF obj.t = "FormData"
    THEN IF obj.kids = << >> THEN "false"
         ELSE IF "containsFile" \notin TopLevelNames THEN "ReferenceError"
         ELSE IF \E i \in 1..Len(obj.kids) :
                    objectContainsFile(obj.kids[i]) = "true"
              THEN "true" ELSE "false"
    ELSE IF obj.t \in {"object", "FileList"}
    THEN IF "containsFile" \notin TopLevelNames THEN "ReferenceError"
         ELSE IF obj.t = "object" /\ \E i \in 1..Len(obj.kids) :
                    objectContainsFile(obj.kids[i]) = "true"
              THEN "true" ELSE "false"
    ELSE "false"

\* objectContainsFile is applied to a value
Inspect(obj) ==
    /\ inspected = NoInspection
    /\ inspected' = [obj |-> obj, out |-> objectContainsFile(obj)]
    /\ UNCHANGED << pc, options, autoJSON, retries, timeout, opts, aborted,
                    timer, attempts, calls, response, result >>
    /\ UNCHANGED << csrfOptions, dom, cachedToken, token, lookups, tokenCalls,
                    classified, normalization, passed >>
    /\ UNCHANGED << throttled, debounced, reading, flights >>

NextContains == \E obj \in Structures(MaxDepth) : Inspect(obj)

SpecContains == Init /\ [][NextContains]_vars

\* a file-like leaf somewhere in the structure
RECURSIVE HasFileLeaf(_)
HasFileLeaf(val) ==
    \/ val.t \in {"File", "Blob"}
    \/ val.t = "FileList" /\ val.length > 0
    \/ /\ val.t \in {"object", "FormData"}
       /\ \E i \in 1..Len(val.kids) : HasFileLeaf(val.kids[i])

\* C21: objectContainsFile returns true for a structure with a file-like
\* leaf (File, Blob, non-empty FileList) at any depth, and false for an
\* all-text structure, an empty structure, a primitive and null.
C21_ContainsFile ==
    inspected.out # "none" =>
        inspected.out = IF HasFileLeaf(inspected.obj) THEN "true" ELSE "false"

(* ------------------------------- throttle ------------------------------ *)

MaxLimit == 2

MaxTime == 4

MaxThrottleCalls == 4

\* the variables no helper of this section touches
safeFetchVars ==
    << pc, options, autoJSON, retries, timeout, opts, aborted, timer,
       attempts, calls, response, result >>

pageVars ==
    << csrfOptions, dom, cachedToken, token, lookups, tokenCalls, classified,
       normalization, passed >>

\* throttle(func, limit): the wrapper is made, inThrottle is undefined
throttle(limit) ==
    /\ ~ throttled.made
    /\ throttled' = [throttled EXCEPT !.made = TRUE, !.limit = limit]
    /\ UNCHANGED << safeFetchVars, pageVars, inspected, debounced, reading,
                    flights >>

\* Variant: the flag is never raised, so no call is held back.
ThrottledCall_NoFlag ==
    /\ throttled.made
    /\ throttled.callsMade < MaxThrottleCalls
    /\ throttled' =
          [throttled EXCEPT
              !.callsMade = @ + 1,
              !.invocations = @ + 1,
              !.lastInvoked = throttled.now,
              !.timer = throttled.now + throttled.limit]
    /\ UNCHANGED << safeFetchVars, pageVars, inspected, debounced, reading,
                    flights >>

\* A call of the wrapper: if (!inThrottle) { func.apply(this, args);
\* inThrottle = true; setTimeout(() => inThrottle = false, limit) }
ThrottledCall ==
    /\ throttled.made
    /\ throttled.callsMade < MaxThrottleCalls
    /\ throttled' =
          IF throttled.inThrottle # "true"
          THEN [throttled EXCEPT
                   !.callsMade = @ + 1,
                   !.invocations = @ + 1,
                   !.lastInvoked = throttled.now,
                   !.inThrottle = "true",
                   !.timer = throttled.now + throttled.limit]
          ELSE [throttled EXCEPT !.callsMade = @ + 1]
    /\ UNCHANGED << safeFetchVars, pageVars, inspected, debounced, reading,
                    flights >>

\* The timer callback, no earlier than `limit` ms after it was set:
\* inThrottle = false
ThrottleTimerFires ==
    /\ throttled.timer # NoTime
    /\ throttled.now >= throttled.timer
    /\ throttled' = [throttled EXCEPT !.inThrottle = "false", !.timer = NoTime]
    /\ UNCHANGED << safeFetchVars, pageVars, inspected, debounced, reading,
                    flights >>

\* a millisecond passes; a due timer may run late
ThrottleTick ==
    /\ throttled.made
    /\ throttled.now < MaxTime
    /\ throttled' = [throttled EXCEPT !.now = @ + 1]
    /\ UNCHANGED << safeFetchVars, pageVars, inspected, debounced, reading,
                    flights >>

NextThrottle ==
    \/ \E limit \in 1..MaxLimit : throttle(limit)
    \/ ThrottledCall
    \/ ThrottleTimerFires
    \/ ThrottleTick

SpecThrottle == Init /\ [][NextThrottle]_vars

\* a step that is a call of the wrapper, and one that invokes func
ThrottledCallStep == throttled'.callsMade = throttled.callsMade + 1

ThrottleInvokes == throttled'.invocations = throttled.invocations + 1

SafelyReadDecoding(type) ==
    CASE type = "json" -> "json"
      [] type = "text" -> "text"
      [] type = "blob" -> "blob"
      [] type = "multipart" -> "text"
      [] OTHER -> "arrayBuffer"

\* the reader safeFetch applies to a response with this Content-Type:
\* contentType?.includes("application/json") ? json() : text()
SafeFetchDecoding(contentType) ==
    IF IsJsonContentType(contentType) THEN "json" ELSE "text"

BINARY_DATA == [t |-> "Blob", v |-> "body"]

\* what the chosen reader makes of the body text; json() rejects on text
\* that is not JSON
Decode(decoding, text) ==
    CASE decoding = "json" ->
           IF WellFormedJSON(text)
           THEN [rejected |-> FALSE, value |-> JSONParse(text)]
           ELSE [rejected |-> TRUE, value |-> SyntaxError]
      [] decoding = "text" -> [rejected |-> FALSE, value |-> Str(text)]
      [] decoding = "blob" -> [rejected |-> FALSE, value |-> BINARY_DATA]
      [] OTHER -> [rejected |-> FALSE, value |-> [t |-> "ArrayBuffer", v |-> "body"]]

\* Variant: the body is read from the response itself, not from a clone.
SafelyReadCall_NoClone(in, text, used) ==
    /\ reading.pc = "idle"
    /\ reading' =
          [ NoReading EXCEPT
              !.base = in.base, !.casing = in.casing,
              !.contentType = in.contentType, !.text = text,
              !.type = getResponseType(in.contentType),
              !.decoding = SafelyReadDecoding(getResponseType(in.contentType)),
              !.fetchDecoding = SafeFetchDecoding(in.contentType),
              !.bodyUsed = TRUE,
              !.pc = IF used THEN "rejected" ELSE "pending",
              !.out = IF used THEN NetworkError ELSE Null ]
    /\ UNCHANGED << safeFetchVars, pageVars, inspected, throttled, debounced,
                    flights >>

\* safelyReadResponse(response), up to its await: the response is
\* classified and cloned, and a reader of the clone is started.  clone()
\* throws a TypeError on a response whose body was already used.
SafelyReadCall(in, text, used) ==
    /\ reading.pc = "idle"
    /\ reading' =
          [ NoReading EXCEPT
              !.base = in.base, !.casing = in.casing,
              !.contentType = in.contentType, !.text = text,
              !.type = getResponseType(in.contentType),
              !.decoding = SafelyReadDecoding(getResponseType(in.contentType)),
              !.fetchDecoding = SafeFetchDecoding(in.contentType),
              !.bodyUsed = used,
              !.pc = IF used THEN "rejected" ELSE "pending",
              !.out = IF used THEN NetworkError ELSE Null ]
    /\ UNCHANGED << safeFetchVars, pageVars, inspected, throttled, debounced,
                    flights >>

\* the reader of the clone settles, and safelyReadResponse with it
SafelyReadSettles ==
    /\ reading.pc = "pending"
    /\ reading' =
          [ reading EXCEPT
              !.cloneUsed = TRUE,
              !.pc = IF Decode(reading.decoding, reading.text).rejected
                     THEN "rejected" ELSE "returned",
              !.out = Decode(reading.decoding, reading.text).value ]
    /\ UNCHANGED << safeFetchVars, pageVars, inspected, throttled, debounced,
                    flights >>

\* another consumer reads the body of the original response
ConsumerReads ==
    /\ reading.pc # "idle"
    /\ reading.consumer = "none"
    /\ reading' =
          [ reading EXCEPT
              !.consumer = IF reading.bodyUsed THEN "TypeError" ELSE "ok",
              !.bodyUsed = TRUE ]
    /\ UNCHANGED << safeFetchVars, pageVars, inspected, throttled, debounced,
                    flights >>

NextRead ==
    \/ \E in \in ClassifierInputs, text \in { JSON_OBJECT_TEXT, HTML_TEXT }, used \in BOOLEAN :
          SafelyReadCall(in, text, used)
    \/ SafelyReadSettles
    \/ ConsumerReads

SpecRead == Init /\ [][NextRead]_vars

\* C23: for every Content-Type, in any letter case and of any category,
\* safeFetch reads the body with the decoding safelyReadResponse selects
\* for it through getResponseType.
C23_SameDecoding ==
    (reading.pc # "idle" /\ reading.contentType.has) =>
        reading.fetchDecoding = reading.decoding

\* C25: safelyReadResponse reads from a clone for every classification:
\* when it has returned, the body of the original response is unconsumed
\* unless another consumer has read it, and that consumer's one read works.
C25_ReadsClone ==
    reading.pc = "returned" =>
        /\ reading.cloneUsed
        /\ reading.consumer = "none" => ~ reading.bodyUsed
        /\ reading.consumer # "TypeError"

\* a binary body was read through the clone and then once more by
\* another consumer
C25_Witness ==
    /\ reading.pc = "returned"
    /\ reading.type = "blob"
    /\ reading.out = BINARY_DATA
    /\ reading.consumer = "ok"

(* ------------------ properties: the request safeFetch sends ------------ *)

\* C26: the body is serialized to JSON and Content-Type: application/json
\* set only when autoJSON is true and the body is a plain structured value
\* without binary file data; an absent body, a text body, a FormData and a
\* File/Blob reach the transport unchanged, with no Content-Type override.
C26_BodyEncoder ==
    pc # "idle" =>
        IF autoJSON /\ (options.body.t \in {"object", "cyclic"})
        THEN pc # "rejected" =>
                /\ opts.body = JSONStringify(options.body)
                /\ opts.headers["Content-Type"] = Header(APPLICATION_JSON)
        ELSE /\ opts.body = options.body
             /\ opts.headers["Content-Type"] = options.headers["Content-Type"]

\* C27: a header the caller supplies explicitly is sent with the caller's
\* value, whatever the library would add: Accept, Content-Type and
\* X-CSRFToken alike, also when autoJSON serializes an object body.
C27_CallerHeaderWins ==
    pc # "idle" =>
        \A h \in HeaderNames :
            options.headers[h].has => opts.headers[h] = options.headers[h]

(* --------------- properties: the caller's options object --------------- *)

\* C29: safeFetch and fetchWithCSRF leave the caller's options object as it
\* was passed: method, headers and body keep their values for every body
\* type and every outcome; what is added (the token header, the default
\* method, the serialized body, the merged headers) goes into copies.
C29_OptionsUnchanged ==
    pc # "idle" =>
        IF HandedOff
        THEN /\ csrfOptions = passed
             /\ options = CsrfRequest(passed, token)
        ELSE options = passed

\* an object body was serialized for the transport and a method and token
\* header were added, all in copies
C29_Witness ==
    /\ HandedOff
    /\ pc = "resolved"
    /\ passed.body = PLAIN_OBJECT
    /\ passed.method = Undefined
    /\ ~ passed.headers["X-CSRFToken"].has
    /\ csrfOptions = passed
    /\ token = META_TOKEN
    /\ opts.body = JSONStringify(PLAIN_OBJECT)
    /\ opts.method = Str("POST")
    /\ opts.headers["X-CSRFToken"] = HeaderOf(META_TOKEN)

(* ------------------------------- debounce ------------------------------ *)

MaxWait == 2

MaxDebounceCalls == 3

\* debounce(func, wait, { immediate, maxWait }): the wrapper is made
debounce(wait, immediate, maxWait) ==
    /\ ~ debounced.made
    /\ debounced' =
          [debounced EXCEPT !.made = TRUE, !.wait = wait,
                            !.immediate = immediate, !.maxWait = maxWait]
    /\ UNCHANGED << safeFetchVars, pageVars, inspected, throttled, reading,
                    flights >>

\* A call of the wrapper: the pending timer is cleared (the variable keeps
\* the old id), lastCallTime is set; with callNow (immediate && !timeoutId)
\* func is invoked and no timer is set, otherwise a timer for `later` is
\* set.  timeoutId is "undefined", "null" or "id" (the number setTimeout
\* returned); due is when the pending timer is due; maxWait = 0 stands for
\* no maxWait.
DebouncedCall ==
    /\ debounced.made
    /\ debounced.callsMade < MaxDebounceCalls
    /\ debounced' =
          IF (debounced.immediate /\ debounced.timeoutId # "id")
          THEN [debounced EXCEPT
                   !.callsMade = @ + 1,
                   !.lastCallTime = debounced.now,
                   !.due = NoTime,
                   !.invocations = @ + 1]
          ELSE [debounced EXCEPT
                   !.callsMade = @ + 1,
                   !.lastCallTime = debounced.now,
                   !.timeoutId = "id",
                   !.due = debounced.now + debounced.wait]
    /\ UNCHANGED << safeFetchVars, pageVars, inspected, throttled, reading,
                    flights >>

\* `later`, run by the timer no earlier than it is due: with maxWait and a
\* last call less than maxWait ago it sets the timer again, otherwise it
\* resets timeoutId and, unless immediate, invokes func.
DebounceTimerFires ==
    /\ debounced.due # NoTime
    /\ debounced.now >= debounced.due
    /\ debounced' =
          IF /\ debounced.maxWait # 0
             /\ debounced.now - debounced.lastCallTime < debounced.maxWait
          THEN [debounced EXCEPT
                   !.timeoutId = "id",
                   !.due = debounced.now + debounced.wait]
          ELSE [debounced EXCEPT
                   !.timeoutId = "null",
                   !.due = NoTime,
                   !.invocations = IF debounced.immediate THEN @ ELSE @ + 1]
    /\ UNCHANGED << safeFetchVars, pageVars, inspected, throttled, reading,
                    flights >>

\* a millisecond passes; a due timer may run late
DebounceTick ==
    /\ debounced.made
    /\ debounced.now < MaxTime
    /\ debounced' = [debounced EXCEPT !.now = @ + 1]
    /\ UNCHANGED << safeFetchVars, pageVars, inspected, throttled, reading,
                    flights >>

NextDebounce ==
    \/ \E wait \in 1..MaxWait, immediate \in BOOLEAN,
          maxWait \in {0, MaxWait + 1} : debounce(wait, immediate, maxWait)
    \/ DebouncedCall
    \/ DebounceTimerFires
    \/ DebounceTick

SpecDebounce == Init /\ [][NextDebounce]_vars

\* C30: with immediate = true func is invoked on the leading edge only:
\* the first call invokes it, and after that only a call made at least
\* `wait` ms after the call before it; a call that comes less than `wait`
\* ms after the previous one invokes nothing, and no timer invokes func.
C30_LeadingEdge ==
    [][debounced.immediate =>
          /\ (debounced.callsMade = 0 /\ debounced'.callsMade = 1) =>
                debounced'.invocations = debounced.invocations + 1
          /\ debounced'.invocations = debounced.invocations + 1 =>
                /\ debounced'.callsMade = debounced.callsMade + 1
                /\ \/ debounced.lastCallTime = NoTime
                   \/ debounced.now - debounced.lastCallTime >= debounced.wait]_vars

(* ---------------------- two safeFetch calls at once -------------------- *)

MaxFlightRetries == 1

\* the responses the transport gives the two calls
FlightResponses ==
    { [status |-> 200, contentType |-> Header(TEXT_HTML), text |-> HTML_TEXT,
       broken |-> FALSE],
      [status |-> 500, contentType |-> Header(TEXT_HTML), text |-> HTML_TEXT,
       broken |-> FALSE],
      [status |-> 200, contentType |-> Header(APPLICATION_JSON),
       text |-> HTML_TEXT, broken |-> FALSE] }

\* `await fetch(url, opts)` in the call with locals f
FlightFetch(f) ==
    [f EXCEPT !.calls = @ + 1, !.pc = "fetching", !.response = NoResponse]

\* the catch block in the call with locals f
FlightCatch(f, err) ==
    IF f.attempts < f.retries
    THEN FlightFetch([f EXCEPT !.attempts = @ + 1])
    ELSE [f EXCEPT !.pc = "resolved", !.result = << err, Null >>]

\* safeFetch(url, {}, { retries: r, timeout: t }) is called as call i: its
\* own controller, timer and counter are created
FlightCall(i, r, t) ==
    /\ flights[i].pc = "idle"
    /\ flights' =
          [flights EXCEPT ![i] =
              FlightFetch([NoFlight EXCEPT
                              !.retries = r, !.timeout = t,
                              !.timer = IF t # 0 THEN "pending" ELSE "none"])]
    /\ UNCHANGED << safeFetchVars, pageVars, inspected, throttled, debounced,
                    reading >>

FlightFetchResolves(i, resp) ==
    /\ flights[i].pc = "fetching"
    /\ ~ flights[i].aborted
    /\ flights' =
          [flights EXCEPT ![i] =
              [@ EXCEPT !.response = resp, !.timer = ClearTimeout(@),
                        !.pc = "reading"]]
    /\ UNCHANGED << safeFetchVars, pageVars, inspected, throttled, debounced,
                    reading >>

FlightFetchRejects(i) ==
    /\ flights[i].pc = "fetching"
    /\ ~ flights[i].aborted
    /\ flights' = [flights EXCEPT ![i] = FlightCatch(@, NetworkError)]
    /\ UNCHANGED << safeFetchVars, pageVars, inspected, throttled, debounced,
                    reading >>

FlightFetchAborted(i) ==
    /\ flights[i].pc = "fetching"
    /\ flights[i].aborted
    /\ flights' = [flights EXCEPT ![i] = FlightCatch(@, AbortError)]
    /\ UNCHANGED << safeFetchVars, pageVars, inspected, throttled, debounced,
                    reading >>

\* Variant: one controller at module level, shared by every call: the
\* timer of one call aborts them all.
FlightTimerFires_SharedController(i) ==
    /\ flights[i].timer = "pending"
    /\ flights' =
          [j \in Flights |->
              IF j = i
              THEN [flights[j] EXCEPT !.timer = "fired", !.aborted = TRUE]
              ELSE [flights[j] EXCEPT !.aborted = TRUE]]
    /\ UNCHANGED << safeFetchVars, pageVars, inspected, throttled, debounced,
                    reading >>

\* the timer of call i fires: its own controller is aborted
FlightTimerFires(i) ==
    /\ flights[i].timer = "pending"
    /\ flights' =
          [flights EXCEPT ![i] = [@ EXCEPT !.timer = "fired", !.aborted = TRUE]]
    /\ UNCHANGED << safeFetchVars, pageVars, inspected, throttled, debounced,
                    reading >>

\* the body read of call i settles
FlightReadSettles(i) ==
    /\ flights[i].pc = "reading"
    /\ LET f == flights[i]
           read == ReadBody(flights[i].response)
       IN flights' =
             [flights EXCEPT ![i] =
                 IF read.fault
                 THEN FlightCatch(f, read.err)
                 ELSE IF ~ Ok(f.response.status)
                 THEN FlightCatch(f, HttpError(f.response, read.data))
                 ELSE [f EXCEPT !.pc = "resolved",
                                !.result = << NoError, read.data >>]]
    /\ UNCHANGED << safeFetchVars, pageVars, inspected, throttled, debounced,
                    reading >>

NextFlights ==
    \E i \in Flights :
        \/ \E r \in 0..MaxFlightRetries, t \in 0..MaxTimeout : FlightCall(i, r, t)
        \/ \E resp \in FlightResponses : FlightFetchResolves(i, resp)
        \/ FlightFetchRejects(i)
        \/ FlightFetchAborted(i)
        \/ FlightTimerFires(i)
        \/ FlightReadSettles(i)

SpecFlights == Init /\ [][NextFlights]_vars

\* What holds of a call that runs alone: it is aborted only by its own
\* timer, it invokes fetch at most retries + 1 times, and its outcome is
\* the one its own attempts give.
AsIfAlone(f) ==
    /\ f.aborted => (f.timer = "fired" /\ f.timeout # 0)
    /\ f.attempts <= f.retries
    /\ f.calls = IF f.pc = "idle" THEN 0 ELSE f.attempts + 1
    /\ f.pc = "resolved" =>
          /\ f.result[1] = AbortError => f.aborted
          /\ f.result[1] = NoError =>
                /\ Ok(f.response.status)
                /\ f.result[2] = ReadBody(f.response).data
          /\ f.result[1] # NoError =>
                /\ f.calls = f.retries + 1
                /\ f.result[2] = Null

\* C28: two calls in flight together share no mutable state: in every
\* interleaving of their completions and timers a step of one call leaves
\* the controller, timer, counter and outcome of the other untouched, and
\* each call behaves and resolves as it would alone.
C28_NoSharedState ==
    /\ [](\A i \in Flights : AsIfAlone(flights[i]))
    /\ [][\A i, j \in Flights :
             (i # j /\ flights'[i] # flights[i]) => flights'[j] = flights[j]]_vars

\* both calls are in flight; the timer of the first has fired and aborted
\* it, the second is reading its response, unaborted
C28_Witness ==
    /\ flights[1].pc = "fetching"
    /\ flights[1].aborted
    /\ flights[2].pc = "reading"
    /\ flights[2].timeout # 0
    /\ ~ flights[2].aborted

====
